---- MODULE Spec2Model ----
(***************************************************************************)
(* A model of auto_aider.py: AiderAgent.run and the methods it calls.      *)
(*                                                                         *)
(* The collaborator (aider's Coder.run), the target subprocess and stdin   *)
(* are the environment: every step of run that blocks on one of them is    *)
(* one action, whose input (the response text, the subprocess outcome, the *)
(* line typed) is drawn from a small set.                                  *)
(*                                                                         *)
(* Texts typed by the user are sequences of characters, so that strip()    *)
(* and lower() are computed.  Texts produced by execute_code are sequences *)
(* of pieces, so that concatenation and "begins with" are computed.        *)
(* Collaborator responses are modelled by what json.loads makes of them.   *)
(***************************************************************************)
EXTENDS Integers, Sequences, FiniteSets, TLC

VARIABLES
    config,             \* AiderAgentConfig, as validated by pydantic
    pydantic,           \* major version of the installed pydantic (1 or 2)
    pc,                 \* the position of run()
    status,             \* how run() ended ("running" until then)
    high_level_idea,    \* run(): input().strip()
    current_prompt,     \* build_structured_prompt: the working idea
    refined,            \* build_structured_prompt: loop index of the refinement loop
    structured_prompt,  \* the value build_structured_prompt returned
    artifact,           \* aider_auto_prompt.json as written by this run
    confirm,            \* the line typed at "Do you want to run this prompt?"
    i,                  \* iterations of the main loop completed
    evaluation,         \* run(): the local `evaluation`
    output,             \* run(): the local `output`
    outputIter,         \* the iteration whose execute_code returned `output`
    evalRequest,        \* the last evaluate_output call: its iteration, and the
                        \* iteration of the `output` it was given
    lastExec,           \* what the target process did in the last execute_code
    liveProcs,          \* target processes launched by execute_code and still alive
    lastCall,           \* the last request given to self.coder.run: its kind, the
                        \* text it embeds and, for an analysis or a summary
                        \* request, the text returned
    evalResponse,       \* the collaborator's response to the last evaluation request
    reviewResponse,     \* the collaborator's response to the review request
    reviewResult,       \* the value final_review returned
    human,              \* the line typed at the final verification prompt
    genCount,           \* calls of generate_code
    execCount,          \* calls of execute_code
    evalCount,          \* calls of evaluate_output
    reviewCalls,        \* calls of final_review
    humanCalls,         \* calls of human_final_verification
    collabCalls,        \* calls of self.coder.run
    clock,              \* utils.py: time.time(), in ticks
    last_calls,         \* utils.py: the module-level list _last_calls
    wikiCalls,          \* utils.py: the calls of get_wiki_article made so far: where
                        \* each is in wrapper, the `now` it read and its wake-up time
    starts              \* the times at which the body of get_wiki_article started

vars == <<config, pydantic, pc, status, high_level_idea, current_prompt, refined,
          structured_prompt, artifact, confirm, i, evaluation, output, outputIter,
          evalRequest, lastExec, liveProcs, lastCall, evalResponse, reviewResponse,
          reviewResult, human, genCount, execCount, evalCount, reviewCalls, humanCalls, collabCalls,
          clock, last_calls, wikiCalls, starts>>

\* the state of utils.py, which run() and the methods it calls never touch
rateVars == <<clock, last_calls, wikiCalls, starts>>

\* the state of auto_aider.py, which utils.py never touches
agentVars == <<config, pydantic, pc, status, high_level_idea, current_prompt, refined,
               structured_prompt, artifact, confirm, i, evaluation, output,
               outputIter, evalRequest, lastExec, liveProcs, lastCall, evalResponse,
               reviewResponse, reviewResult, human, genCount, execCount, evalCount,
               reviewCalls, humanCalls, collabCalls>>

(***************************************************************************)
(* Bounds of the model.                                                    *)
(***************************************************************************)
\* the largest max_iterations a configuration carries
MaxIter == 2

\* the calls of get_wiki_article a behaviour makes, and the last tick of the clock
MaxWikiCalls == 5
MaxTime == 5

\* the values the environment gives WIKI_RATE_LIMIT_CALLS and
\* WIKI_RATE_LIMIT_PERIOD (in ticks)
RATE_LIMIT_CALLS == 2
RATE_LIMIT_PERIOD == 3

(***************************************************************************)
(* Program constants.                                                      *)
(***************************************************************************)
\* build_structured_prompt(self, high_level_idea, iterations = 3)
RefineIterations == 3
\* startup_timeout: int = 5
DefaultStartupTimeout == 5

(***************************************************************************)
(* Texts typed on stdin: sequences of characters.                          *)
(***************************************************************************)
Whitespace == {" ", "\t", "\n"}

\* str.lower() on the characters the typed lines are made of
LowerChar(c) ==
    CASE c = "Y" -> "y"
      [] c = "N" -> "n"
      [] OTHER -> c

Lower(s) == [k \in DOMAIN s |-> LowerChar(s[k])]

RECURSIVE LStrip(_)
LStrip(s) ==
    IF s # <<>> /\ Head(s) \in Whitespace THEN LStrip(Tail(s)) ELSE s

RECURSIVE RStrip(_)
RStrip(s) ==
    IF s # <<>> /\ s[Len(s)] \in Whitespace
    THEN RStrip(SubSeq(s, 1, Len(s) - 1))
    ELSE s

\* str.strip()
Strip(s) == RStrip(LStrip(s))

\* the lines the user may type at "Enter your high-level idea: "
Ideas == { <<>>, <<" ", "\n">>, <<"a">>, <<" ", "a", " ">> }

\* the lines the user may type at a (y/n) prompt
Answers == { <<"y">>, <<" ", "Y", "\n">>, <<"n">>, <<>>, <<"y", "e", "s">> }

\* no line typed yet
NoLine == <<"?">>

(***************************************************************************)
(* JSON values, as json.loads returns them.  A value is [t, v]: its type   *)
(* and its content as a string ("absent": the key is not in the object).   *)
(***************************************************************************)
JV(t, v) == [t |-> t, v |-> v]
Absent == JV("absent", "")
JNull  == JV("null", "")
JTrue  == JV("bool", "true")
JFalse == JV("bool", "false")

\* values the collaborator may give the "success" key
SuccessValues ==
    { Absent, JNull, JTrue, JFalse, JV("num", "1"), JV("num", "2"),
      JV("str", "True"), JV("str", "maybe"), JV("arr", "nonempty") }

\* values the collaborator may give the "feedback" key
FeedbackValues == { Absent, JNull, JV("str", "fix") }

\* values the collaborator may give the "review_passed" key
ReviewValues ==
    { Absent, JNull, JTrue, JFalse, JV("num", "0"), JV("num", "1"),
      JV("str", "false"), JV("str", ""), JV("arr", "nonempty") }

\* what json.loads makes of a response text: it raises ("invalid") or returns
\* a value of one of the JSON types
TopKinds == {"invalid", "array", "object"}

\* Python truthiness of a JSON value (`if self.final_review():`)
Truthy(val) ==
    CASE val.t = "bool" -> val.v = "true"
      [] val.t = "num"  -> val.v # "0"
      [] val.t = "str"  -> val.v # ""
      [] val.t \in {"arr", "obj"} -> val.v = "nonempty"
      [] OTHER -> FALSE

(***************************************************************************)
(* pydantic's validation of EvaluationResult(success: bool,                *)
(* feedback: Optional[str]).  A validation is [ok, value].                 *)
(***************************************************************************)
BoolTrueStrs  == {"1", "on", "t", "true", "y", "yes"}
BoolFalseStrs == {"0", "off", "f", "false", "n", "no"}

\* str.lower() on the words the responses carry
LowerWord(w) ==
    CASE w = "False" -> "false"
      [] w = "True"  -> "true"
      [] OTHER -> w

\* success: bool -- bool, 0/1 and the listed words are accepted (both versions)
ValidateBool(val) ==
    CASE val.t = "bool" -> [ok |-> TRUE, value |-> (val.v = "true")]
      [] val.t = "num" /\ val.v \in {"0", "1"} ->
            [ok |-> TRUE, value |-> (val.v = "1")]
      [] val.t = "str" /\ LowerWord(val.v) \in BoolTrueStrs ->
            [ok |-> TRUE, value |-> TRUE]
      [] val.t = "str" /\ LowerWord(val.v) \in BoolFalseStrs ->
            [ok |-> TRUE, value |-> FALSE]
      [] OTHER -> [ok |-> FALSE, value |-> FALSE]

\* feedback: Optional[str] -- version 1 gives a missing Optional field the
\* default None and coerces numbers and bools to str; version 2 does neither
ValidateOptStr(val, version) ==
    CASE val.t = "null" -> [ok |-> TRUE, value |-> JNull]
      [] val.t = "str"  -> [ok |-> TRUE, value |-> val]
      [] val.t = "absent" -> [ok |-> (version = 1), value |-> JNull]
      [] val.t \in {"num", "bool"} ->
            [ok |-> (version = 1), value |-> JV("str", val.v)]
      [] OTHER -> [ok |-> FALSE, value |-> JNull]

EvaluationResult(success, feedback) == [success |-> success, feedback |-> feedback]

\* EvaluationResult(success=False, feedback="Parsing error")
ParsingError == EvaluationResult(FALSE, JV("str", "Parsing error"))

\* evaluate_output taking the truthiness of "success" in place of validating it
ParseEvaluation_Unvalidated(resp, version) ==
    IF resp.json # "object"
    THEN ParsingError
    ELSE EvaluationResult(Truthy(resp.success), JNull)

\* evaluate_output, from the response on: json.loads, EvaluationResult(**json),
\* and the except branch
ParseEvaluation(resp, version) ==
    IF resp.json # "object"
    THEN ParsingError
    ELSE LET s == ValidateBool(resp.success)
             f == ValidateOptStr(resp.feedback, version)
         IN  IF s.ok /\ f.ok
             THEN EvaluationResult(s.value, f.value)
             ELSE ParsingError

\* the collaborator's possible responses to the evaluation request
EvalResponses ==
    [json : TopKinds \ {"object"}, success : {Absent}, feedback : {Absent}]
    \cup [json : {"object"}, success : SuccessValues, feedback : FeedbackValues]

NoEvalResponse == [json |-> "none", success |-> Absent, feedback |-> Absent]

\* final_review, from the response on: json.loads, .get("review_passed", False),
\* and the except branch
ParseReview(resp) ==
    IF resp.json = "object"
    THEN IF resp.review_passed = Absent THEN JFalse ELSE resp.review_passed
    ELSE JFalse

\* the collaborator's possible responses to the review request
ReviewResponses ==
    [json : TopKinds \ {"object"}, review_passed : {Absent}]
    \cup [json : {"object"}, review_passed : ReviewValues]

NoReviewResponse == [json |-> "none", review_passed |-> Absent]

(***************************************************************************)
(* execute_code.  An outcome text is a sequence of pieces.                 *)
(***************************************************************************)
\* what the target process may write: [stdout, stderr]
Written ==
    { [stdout |-> <<>>, stderr |-> <<>>],
      [stdout |-> <<"out">>, stderr |-> <<>>],
      [stdout |-> <<"out">>, stderr |-> <<"err">>] }
Silent == { [stdout |-> <<>>, stderr |-> <<>>] }

\* str(e) of an exception
ExcText == <<"msg">>

ErrorPrefix == "Error executing program: "

\* the sentence naming the default timeout, not the configured one
StartedSentence_DefaultOnly(timeout) ==
    <<"Program started successfully and remained running for ",
      ToString(DefaultStartupTimeout), " seconds.">>

\* the fixed sentence of _check_program_startup
StartedSentence(timeout) ==
    <<"Program started successfully and remained running for ",
      ToString(timeout), " seconds.">>

\* _check_program_startup: Popen raised; communicate returned, timed out, or
\* raised something else
CheckProgramStartup(launch, wait, stdout, stderr, timeout) ==
    CASE launch = "raise"  -> <<ErrorPrefix>> \o ExcText
      [] wait = "exited"   -> stdout \o stderr
      [] wait = "timeout"  -> StartedSentence(timeout)
      [] OTHER             -> <<ErrorPrefix>> \o ExcText

\* whether the process Popen started is still alive when
\* _check_program_startup returns: communicate() returns once it has exited,
\* the TimeoutExpired branch kills it, the outer except branch does neither
StartupLeavesAlive(launch, wait) ==
    launch = "ok" /\ wait = "error"

\* _perform_health_check not looking at the return code
PerformHealthCheck_AnyExitPasses(health) ==
    CASE health \in {"rc0", "rc1"} -> <<"Health check ", "passed">>
      [] health = "timeout" -> <<"Health check timed out">>
      [] OTHER              -> <<"Health check error: ">> \o ExcText

\* _perform_health_check, called with a command configured
PerformHealthCheck(health) ==
    CASE health = "rc0"     -> <<"Health check ", "passed">>
      [] health = "rc1"     -> <<"Health check ", "failed">>
      [] health = "timeout" -> <<"Health check timed out">>
      [] OTHER              -> <<"Health check error: ">> \o ExcText

\* whether execute_code lets the exception of a failed launch escape: the
\* script branch calls subprocess.run outside any try
ExecutePropagates(program_type, launch) ==
    program_type = "script" /\ launch = "raise"

\* f"{startup_result}\nHealth Check: {health_result}"
HealthMarker == "\nHealth Check: "

\* execute_code reporting only the health check when it did not pass
ExecuteText_HealthReplaces(cfg, launch, wait, stdout, stderr, health) ==
    IF cfg.program_type = "long_running"
    THEN LET startup_result ==
                 CheckProgramStartup(launch, wait, stdout, stderr, cfg.startup_timeout)
         IN  IF cfg.health_check_command # "None"
             THEN IF health = "rc0"
                  THEN startup_result \o <<HealthMarker>> \o PerformHealthCheck(health)
                  ELSE <<HealthMarker>> \o PerformHealthCheck(health)
             ELSE startup_result
    ELSE stdout \o stderr

\* execute_code returning a failed script's stderr only
ExecuteText_StderrOnFailure(cfg, launch, wait, stdout, stderr, health) ==
    IF cfg.program_type = "long_running"
    THEN LET startup_result ==
                 CheckProgramStartup(launch, wait, stdout, stderr, cfg.startup_timeout)
         IN  IF cfg.health_check_command # "None"
             THEN startup_result \o <<HealthMarker>> \o PerformHealthCheck(health)
             ELSE startup_result
    ELSE IF stderr # <<>> THEN stderr ELSE stdout

\* the text execute_code returns
ExecuteText(cfg, launch, wait, stdout, stderr, health) ==
    IF cfg.program_type = "long_running"
    THEN LET startup_result ==
                 CheckProgramStartup(launch, wait, stdout, stderr, cfg.startup_timeout)
         IN  IF cfg.health_check_command # "None"
             THEN startup_result \o <<HealthMarker>> \o PerformHealthCheck(health)
             ELSE startup_result
    ELSE stdout \o stderr

\* the outcomes of the target process (and of the health check) a
\* configuration allows; only subprocess.run gives execute_code a return
\* code, _check_program_startup takes none from communicate()
Outcomes(launches, waits, rcs, healths, written) ==
    { [launch |-> l, wait |-> w, rc |-> r, health |-> h,
       stdout |-> x.stdout, stderr |-> x.stderr] :
      l \in launches, w \in waits, r \in rcs, h \in healths, x \in written }

ExecOutcomes(cfg) ==
    IF cfg.program_type = "script"
    THEN Outcomes({"raise"}, {"-"}, {"-"}, {"-"}, Silent)
         \cup Outcomes({"ok"}, {"exited"}, {"0", "1"}, {"-"}, Written)
    ELSE LET healths == IF cfg.health_check_command # "None"
                        THEN {"rc0", "rc1", "timeout", "error"}
                        ELSE {"-"}
         IN  Outcomes({"raise"}, {"-"}, {"-"}, healths, Silent)
             \cup Outcomes({"ok"}, {"timeout", "error"}, {"-"}, healths, Silent)
             \cup Outcomes({"ok"}, {"exited"}, {"-"}, healths, Written)

NoExec == [launch |-> "-", wait |-> "-", rc |-> "-", health |-> "-",
           stdout |-> <<>>, stderr |-> <<>>]

(***************************************************************************)
(* build_structured_prompt and the saved summary.                          *)
(***************************************************************************)
\* the collaborator's possible responses to an analysis request
RefineResponses == { <<"r">>, <<" ", "r", "\n">> }

\* the collaborator's possible responses to the k-th analysis request: the
\* texts of RefineResponses, naming k
AnalysisResponses(k) ==
    { [j \in DOMAIN r |-> IF r[j] = "r" THEN ToString(k) ELSE r[j]] :
        r \in RefineResponses }

\* improved_idea = self.coder.run(analyze_prompt).strip()
ImprovedIdea(response) == Strip(response)

\* the summary request built from the refined idea
SummaryEmbeds_Refined(idea, current) == current

\* the idea the three-field summary request of run() embeds
SummaryEmbeds(idea, current) == idea

Call(kind, embeds, response) ==
    [kind |-> kind, embeds |-> embeds, response |-> response]

NoCall == Call("none", <<>>, <<>>)

\* the collaborator's possible responses to the structured-schema request:
\* the text, what json.loads makes of it, and whether the rendering code
\* runs through on it
SynthResponses ==
    { [raw |-> "text",  json |-> "invalid", renders |-> FALSE],
      [raw |-> "[1]",   json |-> "array",   renders |-> FALSE],
      [raw |-> "{bad}", json |-> "object",  renders |-> FALSE],
      [raw |-> "{doc}", json |-> "object",  renders |-> TRUE] }

\* build_structured_prompt, from the response on: the rendered document, or
\* the raw response in the except branch
RenderStructuredPrompt(resp) ==
    IF resp.json = "object" /\ resp.renders
    THEN [form |-> "rendered", text |-> resp.raw]
    ELSE [form |-> "raw", text |-> resp.raw]

NoPrompt == [form |-> "none", text |-> ""]

\* the collaborator's possible responses to the three-field summary request
SummaryResponses ==
    { [raw |-> "text",  json |-> "invalid"],
      [raw |-> "{hml}", json |-> "object"] }

\* aider_auto_prompt.json before this run writes it
NotWritten == [written |-> FALSE, data |-> ""]

\* json.loads(...) of the summary response raises on text that is not JSON;
\* nothing catches it in run
SummaryRaises(resp) == resp.json = "invalid"

\* run() asking for confirmation before it writes the file
SaveArtifact_Deferred(resp) == NotWritten

\* json.dump(prompt_data, f, indent=2)
SaveArtifact(resp) == [written |-> TRUE, data |-> resp.raw]

(***************************************************************************)
(* The control flow of run.                                                *)
(***************************************************************************)
Step(p, st) == [pc |-> p, status |-> st]

\* the comparison without .lower()
IsYes_CaseSensitive(line) == Strip(line) = <<"y">>

\* `response == "y"` after .strip().lower()
IsYes(line) == Lower(Strip(line)) = <<"y">>

\* run() starting from a successful evaluation
InitialEvaluation_Success == EvaluationResult(TRUE, JNull)

\* evaluation = EvaluationResult(success=False, feedback=None)
InitialEvaluation == EvaluationResult(FALSE, JNull)

\* the loop body evaluating without executing first
AfterGenerate_SkipsExecute == "evaluate"

\* the loop body after generate_code: output = self.execute_code()
AfterGenerate == "execute"

\* the code after the for loop: the review gate or the failure report
AfterLoop(ev) ==
    IF ev.success THEN Step("review", "running") ELSE Step("done", "EXHAUSTED")

\* the loop running one iteration more than max_iterations
LoopHead_OneMore(ev, done, max_iterations) ==
    IF done <= max_iterations THEN Step("generate", "running") ELSE AfterLoop(ev)

\* for i in range(self.config.max_iterations), with `done` iterations completed
LoopHead(ev, done, max_iterations) ==
    IF done < max_iterations THEN Step("generate", "running") ELSE AfterLoop(ev)

\* the loop body without its break
AfterEvaluate_NoBreak(ev, done, max_iterations) ==
    LoopHead(ev, done, max_iterations)

\* the end of the loop body: break on success
AfterEvaluate(ev, done, max_iterations) ==
    IF ev.success THEN AfterLoop(ev) ELSE LoopHead(ev, done, max_iterations)

\* run() entering the loop whatever was typed
AfterConfirm_Unchecked(line, max_iterations) ==
    LoopHead(InitialEvaluation, 0, max_iterations)

\* if confirm != "y": return
AfterConfirm(line, max_iterations) ==
    IF IsYes(line)
    THEN LoopHead(InitialEvaluation, 0, max_iterations)
    ELSE Step("done", "ABORTED")

\* if self.final_review(): ... else: return
AfterReview(result) ==
    IF Truthy(result) THEN Step("human", "running") ELSE Step("done", "REVIEW_REJECTED")

\* if self.human_final_verification(): ... else: ...
AfterHuman(line) ==
    IF IsYes(line) THEN Step("done", "SUCCESS") ELSE Step("done", "HUMAN_REJECTED")

(***************************************************************************)
(* The state after AiderAgent.__init__: a configuration pydantic accepted  *)
(* (max_iterations: int carries no lower bound), run() not yet started.    *)
(***************************************************************************)
\* the configuration documents _validate_config may read
ConfigDocuments ==
    [max_iterations : {-1} \cup (0 .. MaxIter),
     program_type : {"script", "long_running", "daemon"},
     startup_timeout : {DefaultStartupTimeout},
     health_check_command : {"None", "curl"}]
    \cup { [max_iterations |-> 1, program_type |-> "long_running",
            startup_timeout |-> 1, health_check_command |-> "curl"] }

\* AiderAgentConfig(**config_dict): max_iterations: int and
\* startup_timeout: int take any integer, program_type one of its two literals
SchemaAccepts(doc) ==
    /\ doc.max_iterations \in Int
    /\ doc.startup_timeout \in Int
    /\ doc.program_type \in {"script", "long_running"}

\* the configurations __init__ ends with
Configs == { doc \in ConfigDocuments : SchemaAccepts(doc) }

\* no evaluation requested yet
NoEvalRequest == [iter |-> 0, outputIter |-> 0]

\* `evaluation` before run() assigns it
NoEvaluation == EvaluationResult(FALSE, Absent)

Init ==
    /\ config \in Configs
    /\ pydantic \in {1, 2}
    /\ pc = "idea"
    /\ status = "running"
    /\ high_level_idea = NoLine
    /\ current_prompt = NoLine
    /\ refined = 0
    /\ structured_prompt = NoPrompt
    /\ artifact = NotWritten
    /\ confirm = NoLine
    /\ i = 0
    /\ evaluation = NoEvaluation
    /\ output = <<>>
    /\ outputIter = 0
    /\ evalRequest = NoEvalRequest
    /\ lastExec = NoExec
    /\ liveProcs = 0
    /\ lastCall = NoCall
    /\ evalResponse = NoEvalResponse
    /\ reviewResponse = NoReviewResponse
    /\ reviewResult = Absent
    /\ human = NoLine
    /\ genCount = 0
    /\ execCount = 0
    /\ evalCount = 0
    /\ reviewCalls = 0
    /\ humanCalls = 0
    /\ collabCalls = 0
    /\ clock = 0
    /\ last_calls = <<>>
    /\ wikiCalls = <<>>
    /\ starts = <<>>

\* run(): high_level_idea = input(...).strip(); if not high_level_idea: return
ReadIdea ==
    /\ UNCHANGED rateVars
    /\ pc = "idea"
    /\ \E line \in Ideas :
         /\ high_level_idea' = Strip(line)
         /\ IF Strip(line) = <<>>
            THEN pc' = "done" /\ status' = "NO_IDEA"
                 /\ current_prompt' = current_prompt
            ELSE pc' = "refine" /\ status' = status
                 /\ current_prompt' = Strip(line)
    /\ UNCHANGED <<lastCall, outputIter, evalRequest, config, pydantic, refined, structured_prompt, artifact, confirm,
                   i, evaluation, output, lastExec, liveProcs, evalResponse,
                   reviewResponse, reviewResult, human, genCount, execCount,
                   evalCount, reviewCalls, humanCalls, collabCalls>>

\* build_structured_prompt: one pass of the refinement loop
RefineIdea ==
    /\ UNCHANGED rateVars
    /\ pc = "refine"
    /\ refined < RefineIterations
    /\ \E resp \in AnalysisResponses(refined + 1) :
         /\ lastCall' = Call("analyze", current_prompt, resp)
         /\ current_prompt' = ImprovedIdea(resp)
    /\ refined' = refined + 1
    /\ collabCalls' = collabCalls + 1
    /\ pc' = IF refined + 1 < RefineIterations THEN "refine" ELSE "synth"
    /\ UNCHANGED <<outputIter, evalRequest, config, pydantic, status, high_level_idea, structured_prompt,
                   artifact, confirm, i, evaluation, output, lastExec, liveProcs,
                   evalResponse, reviewResponse, reviewResult, human, genCount,
                   execCount, evalCount, reviewCalls, humanCalls>>

\* build_structured_prompt: the structured-schema request and its rendering
Synthesize ==
    /\ UNCHANGED rateVars
    /\ pc = "synth"
    /\ \E resp \in SynthResponses : structured_prompt' = RenderStructuredPrompt(resp)
    /\ lastCall' = Call("schema", current_prompt, <<>>)
    /\ collabCalls' = collabCalls + 1
    /\ pc' = "summary"
    /\ UNCHANGED <<outputIter, evalRequest, config, pydantic, status, high_level_idea, current_prompt, refined,
                   artifact, confirm, i, evaluation, output, lastExec, liveProcs,
                   evalResponse, reviewResponse, reviewResult, human, genCount,
                   execCount, evalCount, reviewCalls, humanCalls>>

\* run(): the three-field summary request, json.loads of the response, and
\* the write of aider_auto_prompt.json
SavePrompt ==
    /\ UNCHANGED rateVars
    /\ pc = "summary"
    /\ collabCalls' = collabCalls + 1
    /\ \E resp \in SummaryResponses :
         /\ lastCall' = Call("summary", SummaryEmbeds(high_level_idea, current_prompt),
                             <<resp.raw>>)
         /\ IF SummaryRaises(resp)
            THEN pc' = "done" /\ status' = "CRASHED" /\ artifact' = artifact
            ELSE pc' = "confirm" /\ status' = status /\ artifact' = SaveArtifact(resp)
    /\ UNCHANGED <<outputIter, evalRequest, config, pydantic, high_level_idea, current_prompt, refined,
                   structured_prompt, confirm, i, evaluation, output, lastExec,
                   liveProcs, evalResponse, reviewResponse, reviewResult, human,
                   genCount, execCount, evalCount, reviewCalls, humanCalls>>

\* run(): the confirmation prompt, and the entry into the loop
Confirm ==
    /\ UNCHANGED rateVars
    /\ pc = "confirm"
    /\ \E line \in Answers :
         /\ confirm' = line
         /\ evaluation' = IF IsYes(line) THEN InitialEvaluation ELSE evaluation
         /\ pc' = AfterConfirm(line, config.max_iterations).pc
         /\ status' = AfterConfirm(line, config.max_iterations).status
    /\ UNCHANGED <<lastCall, outputIter, evalRequest, config, pydantic, high_level_idea, current_prompt, refined,
                   structured_prompt, artifact, i, output, lastExec, liveProcs,
                   evalResponse, reviewResponse, reviewResult, human, genCount,
                   execCount, evalCount, reviewCalls, humanCalls, collabCalls>>

\* generate_code(structured_prompt)
GenerateCode ==
    /\ UNCHANGED rateVars
    /\ pc = "generate"
    /\ genCount' = genCount + 1
    /\ collabCalls' = collabCalls + 1
    /\ lastCall' = Call("generate", <<structured_prompt.text>>, <<>>)
    /\ pc' = AfterGenerate
    /\ UNCHANGED <<outputIter, evalRequest, config, pydantic, status, high_level_idea, current_prompt, refined,
                   structured_prompt, artifact, confirm, i, evaluation, output,
                   lastExec, liveProcs, evalResponse, reviewResponse, reviewResult,
                   human, execCount, evalCount, reviewCalls, humanCalls>>

\* output = self.execute_code()
ExecuteCode ==
    /\ UNCHANGED rateVars
    /\ pc = "execute"
    /\ execCount' = execCount + 1
    /\ \E o \in ExecOutcomes(config) :
         /\ lastExec' = o
         /\ IF ExecutePropagates(config.program_type, o.launch)
            THEN /\ pc' = "done"
                 /\ status' = "CRASHED"
                 /\ output' = output
                 /\ outputIter' = outputIter
                 /\ liveProcs' = liveProcs
            ELSE /\ pc' = "evaluate"
                 /\ status' = status
                 /\ output' = ExecuteText(config, o.launch, o.wait, o.stdout,
                                          o.stderr, o.health)
                 /\ outputIter' = i + 1
                 /\ liveProcs' =
                      IF config.program_type = "long_running"
                         /\ StartupLeavesAlive(o.launch, o.wait)
                      THEN liveProcs + 1
                      ELSE liveProcs
    /\ UNCHANGED <<lastCall, evalRequest, config, pydantic, high_level_idea, current_prompt, refined,
                   structured_prompt, artifact, confirm, i, evaluation,
                   evalResponse, reviewResponse, reviewResult, human, genCount,
                   evalCount, reviewCalls, humanCalls, collabCalls>>

\* evaluation = self.evaluate_output(output), and the end of the loop body
EvaluateOutput ==
    /\ UNCHANGED rateVars
    /\ pc = "evaluate"
    /\ evalCount' = evalCount + 1
    /\ collabCalls' = collabCalls + 1
    /\ i' = i + 1
    /\ evalRequest' = [iter |-> i + 1, outputIter |-> outputIter]
    /\ lastCall' = Call("evaluate", output, <<>>)
    /\ \E resp \in EvalResponses :
         /\ evalResponse' = resp
         /\ evaluation' = ParseEvaluation(resp, pydantic)
    /\ pc' = AfterEvaluate(evaluation', i', config.max_iterations).pc
    /\ status' = AfterEvaluate(evaluation', i', config.max_iterations).status
    /\ UNCHANGED <<outputIter, config, pydantic, high_level_idea, current_prompt, refined,
                   structured_prompt, artifact, confirm, output, lastExec,
                   liveProcs, reviewResponse, reviewResult, human, genCount,
                   execCount, reviewCalls, humanCalls>>

\* if self.final_review(): ...
FinalReview ==
    /\ UNCHANGED rateVars
    /\ pc = "review"
    /\ reviewCalls' = reviewCalls + 1
    /\ collabCalls' = collabCalls + 1
    /\ lastCall' = Call("review", <<>>, <<>>)
    /\ \E resp \in ReviewResponses :
         /\ reviewResponse' = resp
         /\ reviewResult' = ParseReview(resp)
    /\ pc' = AfterReview(reviewResult').pc
    /\ status' = AfterReview(reviewResult').status
    /\ UNCHANGED <<outputIter, evalRequest, config, pydantic, high_level_idea, current_prompt, refined,
                   structured_prompt, artifact, confirm, i, evaluation, output,
                   lastExec, liveProcs, evalResponse, human, genCount, execCount,
                   evalCount, humanCalls>>

\* if self.human_final_verification(): ...
HumanVerify ==
    /\ UNCHANGED rateVars
    /\ pc = "human"
    /\ humanCalls' = humanCalls + 1
    /\ \E line \in Answers :
         /\ human' = line
         /\ pc' = AfterHuman(line).pc
         /\ status' = AfterHuman(line).status
    /\ UNCHANGED <<lastCall, outputIter, evalRequest, config, pydantic, high_level_idea, current_prompt, refined,
                   structured_prompt, artifact, confirm, i, evaluation, output,
                   lastExec, liveProcs, evalResponse, reviewResponse, reviewResult,
                   genCount, execCount, evalCount, reviewCalls, collabCalls>>

Next ==
    \/ ReadIdea
    \/ RefineIdea
    \/ Synthesize
    \/ SavePrompt
    \/ Confirm
    \/ GenerateCode
    \/ ExecuteCode
    \/ EvaluateOutput
    \/ FinalReview
    \/ HumanVerify

Spec == Init /\ [][Next]_vars

\* run() is one thread of blocking calls: when every collaborator call,
\* subprocess run and stdin read returns, its next step is taken
FairSpec == Spec /\ WF_vars(Next)

(***************************************************************************)
(* utils.py: the rate_limit decorator around get_wiki_article.             *)
(***************************************************************************)
\* [t for t in _last_calls if now - t < RATE_LIMIT_PERIOD]
RECURSIVE Recent(_, _)
Recent(calls, now) ==
    IF calls = <<>> THEN <<>>
    ELSE IF now - Head(calls) < RATE_LIMIT_PERIOD
         THEN <<Head(calls)>> \o Recent(Tail(calls), now)
         ELSE Recent(Tail(calls), now)

\* sleep_time = _last_calls[0] + RATE_LIMIT_PERIOD - now, when the list is full
SleepTime(calls, now) ==
    IF Len(calls) >= RATE_LIMIT_CALLS
    THEN calls[1] + RATE_LIMIT_PERIOD - now
    ELSE 0

WikiCall(at, now, wake) == [at |-> at, now |-> now, wake |-> wake]

\* wrapper, from its entry to its first suspension: either at
\* asyncio.sleep(sleep_time), or in the body of get_wiki_article
EnterWrapper ==
    /\ Len(wikiCalls) < MaxWikiCalls
    /\ LET now == clock
           kept == Recent(last_calls, now)
           sleep_time == SleepTime(kept, now)
       IN  IF sleep_time > 0
           THEN /\ last_calls' = kept
                /\ wikiCalls' = Append(wikiCalls, WikiCall("sleep", now, now + sleep_time))
                /\ starts' = starts
           ELSE /\ last_calls' = Append(kept, now)
                /\ wikiCalls' = Append(wikiCalls, WikiCall("body", now, now))
                /\ starts' = Append(starts, clock)
    /\ UNCHANGED <<clock, agentVars>>

\* wrapper, from the return of asyncio.sleep on: _last_calls.append(now) with
\* the `now` read before the sleep, then the body of get_wiki_article
LeaveSleep ==
    /\ \E c \in DOMAIN wikiCalls :
         /\ wikiCalls[c].at = "sleep"
         /\ clock >= wikiCalls[c].wake
         /\ last_calls' = Append(last_calls, wikiCalls[c].now)
         /\ wikiCalls' = [wikiCalls EXCEPT ![c].at = "body"]
         /\ starts' = Append(starts, clock)
    /\ UNCHANGED <<clock, agentVars>>

\* time passes
Tick ==
    /\ clock < MaxTime
    /\ clock' = clock + 1
    /\ UNCHANGED <<last_calls, wikiCalls, starts, agentVars>>

RateNext ==
    \/ EnterWrapper
    \/ LeaveSleep
    \/ Tick

\* the wiki application: no AiderAgent runs in its process
RateInit ==
    /\ Init
    /\ config = [max_iterations |-> 1, program_type |-> "script",
                 startup_timeout |-> DefaultStartupTimeout,
                 health_check_command |-> "None"]
    /\ pydantic = 2

RateSpec == RateInit /\ [][RateNext]_vars

(***************************************************************************)
(* The claims.                                                             *)
(***************************************************************************)
NormalEnds ==
    {"NO_IDEA", "ABORTED", "EXHAUSTED", "REVIEW_REJECTED", "HUMAN_REJECTED", "SUCCESS"}

\* C1: with max_iterations = N >= 1, the prompt confirmed and no evaluation
\* successful, a finished run has made exactly N generate, N execute and N
\* evaluate calls, ended EXHAUSTED and never entered the review gate.
C1_ExactlyNCycles ==
    (pc = "done" /\ IsYes(confirm) /\ config.max_iterations >= 1
       /\ ~evaluation.success)
    => /\ status = "EXHAUSTED"
       /\ genCount = config.max_iterations
       /\ execCount = config.max_iterations
       /\ evalCount = config.max_iterations
       /\ reviewCalls = 0
       /\ humanCalls = 0

\* C2: the step in which the evaluation first succeeds, on iteration k, ends
\* with exactly k generate, execute and evaluate calls made, k <= max_iterations
\* and run() at the final review; from then on no generate, execute or
\* evaluate call is made, and the step taken from there is the final review.
C2_StopsAtFirstSuccess ==
    [][ /\ (~evaluation.success /\ evaluation'.success)
           => /\ pc' = "review"
              /\ i' <= config.max_iterations
              /\ genCount' = i' /\ execCount' = i' /\ evalCount' = i'
              /\ reviewCalls' = 0
        /\ evaluation.success
           => /\ genCount' = genCount /\ execCount' = execCount
              /\ evalCount' = evalCount /\ i' = i
              /\ (pc = "review" => reviewCalls' = reviewCalls + 1)
      ]_vars

\* C2 witness: success on the first of two iterations, run() at the review
C2_Witness ==
    /\ pc = "review" /\ evaluation.success
    /\ i = 1 /\ config.max_iterations = 2 /\ evalCount = 1

\* C3: run() never ends by an uncaught exception: a finished run has one of
\* the normal terminal statuses.
C3_NoAbnormalEnd ==
    pc = "done" => status \in NormalEnds

\* C4: when launching or communicating with the target process raised in the
\* last execute_code call, that call returned a text beginning with
\* "Error executing program: " and run() went on to the evaluation.
C4_LaunchErrorIsOutcome ==
    (execCount >= 1 /\ (lastExec.launch = "raise" \/ lastExec.wait = "error"))
    => /\ status # "CRASHED"
       /\ output # <<>> /\ Head(output) = ErrorPrefix
       /\ (pc = "evaluate" \/ evalCount = execCount)

\* C5 as stated: a run the user declined has not written aider_auto_prompt.json
\* and has made no generate or execute call.
C5_NoSideEffects ==
    status = "ABORTED"
    => ~artifact.written /\ genCount = 0 /\ execCount = 0

\* C5 as amended: a run the user declined has written aider_auto_prompt.json
\* (the file is written before the confirmation prompt, which is only reached
\* with the file written), and has made no generate or execute call and
\* launched no process.
C5_DeclinedAfterSave ==
    /\ pc = "confirm" => artifact.written
    /\ status = "ABORTED"
       => /\ artifact.written
          /\ genCount = 0 /\ execCount = 0 /\ liveProcs = 0

\* C5 witness: the user typed "n" and the run ended
C5_Witness ==
    status = "ABORTED" /\ confirm = <<"n">> /\ pc = "done"

\* C6: once a line that is not "y" (after strip and lower) has been typed at
\* the confirmation prompt, run() has returned, with no generate, execute or
\* evaluate call, no review call and no human-verification prompt.
C6_DeclineDoesNothing ==
    (confirm # NoLine /\ Lower(Strip(confirm)) # <<"y">>)
    => /\ pc = "done" /\ status = "ABORTED"
       /\ genCount = 0 /\ execCount = 0 /\ evalCount = 0
       /\ reviewCalls = 0 /\ humanCalls = 0

\* C6 witness: "yes" was typed at the confirmation prompt
C6_Witness ==
    confirm = <<"y", "e", "s">> /\ pc = "done"

\* C7 as stated, on the responses whose feedback is a string or null (or that
\* are no object at all): the last evaluation is a success only on an object
\* whose success is the boolean true, and a response that is not JSON or not
\* an object, or whose success is missing or not a boolean, gives
\* (success=false, feedback="Parsing error").
C7_StrictVerdict ==
    (evalCount >= 1
       /\ (evalResponse.json = "object" => evalResponse.feedback.t \in {"str", "null"}))
    => /\ evaluation.success
          => evalResponse.json = "object" /\ evalResponse.success = JTrue
       /\ (evalResponse.json # "object" \/ evalResponse.success.t # "bool")
          => evaluation = ParsingError

\* C7 as amended: the last evaluation is a success only on an object whose
\* success is true, the number 1 or a word bool validation reads as true; a
\* response that is not JSON or not an object, or whose success is missing,
\* null, another number, another word or a list, gives (success=false,
\* feedback="Parsing error").
C7_CoercedVerdict ==
    evalCount >= 1
    => /\ evaluation.success
          => /\ evalResponse.json = "object"
             /\ evalResponse.success \in {JTrue, JV("num", "1"), JV("str", "True")}
       /\ ( \/ evalResponse.json # "object"
            \/ evalResponse.success \in
                 {Absent, JNull, JV("num", "2"), JV("str", "maybe"),
                  JV("arr", "nonempty")} )
          => evaluation = ParsingError

\* C7 witness: the word "True" as success was taken as a success
C7_Witness ==
    /\ evalCount >= 1 /\ evaluation.success
    /\ evalResponse.success = JV("str", "True")

\* C8: after the review call, run() goes on to the human step exactly when the
\* response was an object whose review_passed is the boolean true; on every
\* other response the run has ended, rejected, with no human prompt.
C8_StrictReview ==
    reviewCalls >= 1
    => IF reviewResponse.json = "object" /\ reviewResponse.review_passed = JTrue
       THEN pc = "human" \/ humanCalls = 1
       ELSE pc = "done" /\ status = "REVIEW_REJECTED" /\ humanCalls = 0

\* C9: the review gate is entered only after an evaluation of this run that
\* succeeded, and a run that ended EXHAUSTED (its loop body run or not) made
\* no review call and no human-verification prompt.
C9_ReviewOnlyAfterSuccess ==
    /\ (pc \in {"review", "human"} \/ reviewCalls > 0 \/ humanCalls > 0)
       => /\ evaluation.success
          /\ evalCount >= 1
          /\ evalResponse.json = "object"
    /\ status = "EXHAUSTED"
       => /\ reviewCalls = 0 /\ humanCalls = 0
          /\ ~evaluation.success
          /\ evalCount = (IF config.max_iterations > 0 THEN config.max_iterations ELSE 0)

\* C9 witness: the review was called after the second evaluation
C9_Witness ==
    reviewCalls = 1 /\ evalCount = 2 /\ evaluation.success

\* C10: the human is prompted at most once, only after final_review returned
\* true (or 1, which Python holds equal to True), and never after it returned
\* false.
C10_HumanOnlyAfterTrue ==
    /\ humanCalls <= 1
    /\ (pc = "human" \/ humanCalls > 0) => reviewResult \in {JTrue, JV("num", "1")}
    /\ (reviewCalls >= 1 /\ reviewResult = JFalse)
       => humanCalls = 0 /\ pc = "done"

\* C11: a run reports overall success only when final_review returned true
\* (or 1, which Python holds equal to True) and the human answer was
\* affirmative; once the human has answered "n" the run has ended, reporting
\* the failure.
C11_SuccessNeedsBoth ==
    /\ status = "SUCCESS"
       => /\ reviewResult \in {JTrue, JV("num", "1")}
          /\ Lower(Strip(human)) = <<"y">>
    /\ (humanCalls = 1 /\ human = <<"n">>)
       => pc = "done" /\ status = "HUMAN_REJECTED"

\* C12 as stated: at both prompts every line other than the lowercase "y" is a
\* refusal.
C12_OnlyLowercaseY ==
    /\ (confirm # NoLine /\ confirm # <<"y">>) => status = "ABORTED"
    /\ (human # NoLine /\ human # <<"y">>) => status = "HUMAN_REJECTED"

\* C12 as amended: at both prompts a line is affirmative exactly when it is "y"
\* once surrounding whitespace is stripped and it is lowercased ("y", " Y");
\* every other line ("n", the empty line, "yes") is a refusal.
C12_YAfterStripLower ==
    /\ confirm # NoLine
       => (status = "ABORTED" <=> confirm \notin {<<"y">>, <<" ", "Y", "\n">>})
    /\ human # NoLine
       => /\ status = "SUCCESS" <=> human \in {<<"y">>, <<" ", "Y", "\n">>}
          /\ status = "HUMAN_REJECTED" <=> human \notin {<<"y">>, <<" ", "Y", "\n">>}

\* C12 witness: an uppercase Y with whitespace around it was accepted at the
\* final prompt
C12_Witness ==
    human = <<" ", "Y", "\n">> /\ status = "SUCCESS"

\* C13: no collaborator call is made and no confirmation is asked for under a
\* configuration whose max_iterations is below 1.
C13_PositiveBudget ==
    (collabCalls > 0 \/ confirm # NoLine) => config.max_iterations >= 1

\* C14: no process launched by execute_code is alive once it has returned.
C14_NoProcessLeft ==
    liveProcs = 0

\* the part of an outcome text before the health-check line, and the part
\* after the marker of that line
MarkerAt(text) ==
    IF \E k \in DOMAIN text : text[k] = HealthMarker
    THEN CHOOSE k \in DOMAIN text :
           text[k] = HealthMarker /\ \A j \in 1 .. (k - 1) : text[j] # HealthMarker
    ELSE Len(text) + 1
StartupPart(text) == SubSeq(text, 1, MarkerAt(text) - 1)
HealthPart(text) == SubSeq(text, MarkerAt(text) + 1, Len(text))

HealthWords == {"passed", "failed", "Health check timed out"}

\* C16: in long_running mode with a health check configured the last outcome
\* ends with one health-check line, which says passed on exit code 0, failed
\* on a nonzero exit code and timed out on the timeout; exactly one of the
\* three is in it when the health-check process was launched.
C16_HealthLine ==
    (config.program_type = "long_running" /\ config.health_check_command # "None"
       /\ execCount >= 1)
    => LET line == HealthPart(output)
       IN  /\ MarkerAt(output) <= Len(output)
           /\ \A k \in DOMAIN line : line[k] # HealthMarker
           /\ lastExec.health = "rc0" => line[Len(line)] = "passed"
           /\ lastExec.health = "rc1" => line[Len(line)] = "failed"
           /\ lastExec.health = "timeout" => line[Len(line)] = "Health check timed out"
           /\ lastExec.health # "error"
              => Cardinality({k \in DOMAIN line : line[k] \in HealthWords}) = 1
           /\ \A k \in DOMAIN StartupPart(output) :
                StartupPart(output)[k] \notin HealthWords

\* C16 witness: a health check that exited nonzero after the startup check
C16_Witness ==
    /\ config.program_type = "long_running" /\ config.health_check_command = "curl"
    /\ execCount = 1 /\ lastExec.health = "rc1" /\ pc = "evaluate"

\* C17: in long_running mode the last outcome begins with the result of the
\* startup check alone; a configured health check appends its marker and its
\* line after it, and without one the outcome is that result.
C17_HealthOnlyAppends ==
    (config.program_type = "long_running" /\ execCount >= 1)
    => LET startup_result ==
               CheckProgramStartup(lastExec.launch, lastExec.wait, lastExec.stdout,
                                   lastExec.stderr, config.startup_timeout)
           n == Len(startup_result)
       IN  IF config.health_check_command # "None"
           THEN /\ Len(output) > n + 1
                /\ SubSeq(output, 1, n) = startup_result
                /\ output[n + 1] = HealthMarker
           ELSE output = startup_result

\* C17 witness: a health check that timed out after a process that had exited
\* with output
C17_Witness ==
    /\ config.program_type = "long_running" /\ config.health_check_command = "curl"
    /\ execCount = 1 /\ lastExec.health = "timeout" /\ lastExec.wait = "exited"
    /\ lastExec.stdout = <<"out">> /\ pc = "evaluate"

\* C18: in script mode, once the process has run, the outcome is its stdout
\* followed by its stderr whatever its exit code, and run() goes on to the
\* evaluation.
C18_ScriptStdoutStderr ==
    (config.program_type = "script" /\ execCount >= 1 /\ lastExec.launch = "ok")
    => /\ output = lastExec.stdout \o lastExec.stderr
       /\ status # "CRASHED"
       /\ (pc = "evaluate" \/ evalCount = execCount)

\* C18 witness: a script that exited nonzero having written to both streams
C18_Witness ==
    /\ config.program_type = "script" /\ execCount = 1 /\ pc = "evaluate"
    /\ lastExec.rc = "1" /\ lastExec.stdout = <<"out">> /\ lastExec.stderr = <<"err">>

\* C19: a structured-schema response that is not JSON, or cannot be rendered,
\* is returned verbatim as the structured prompt, and the run it belongs to
\* does not end before the confirmation prompt.
C19_RawFallback ==
    structured_prompt.text \in {"text", "[1]", "{bad}"}
    => /\ structured_prompt.form = "raw"
       /\ pc = "done" => confirm # NoLine

\* C20: the steps of an iteration follow one another: generate, then execute,
\* then evaluate, each once per iteration; the output given to evaluate_output
\* is the one execute_code returned in the same iteration; and generate_code
\* is entered again only with every earlier evaluation returned.
C20_StepsInOrder ==
    /\ pc = "generate"
       => genCount = i /\ execCount = i /\ evalCount = i
    /\ pc = "execute"
       => genCount = i + 1 /\ execCount = i /\ evalCount = i
    /\ pc = "evaluate"
       => genCount = i + 1 /\ execCount = i + 1 /\ evalCount = i /\ outputIter = i + 1
    /\ evalRequest.iter = evalCount
    /\ evalRequest.outputIter = evalRequest.iter
    /\ (pc \in {"generate", "execute", "evaluate"} /\ i >= 1) => ~evaluation.success

\* C20 witness: the second iteration at its evaluation step
C20_Witness ==
    pc = "evaluate" /\ i = 1 /\ outputIter = 2 /\ evalRequest.iter = 1

\* C21: with a non-empty idea the first RefineIterations collaborator calls
\* are analysis requests, the first embedding the idea and each later one the
\* trimmed response to the one before it; the next call is the
\* structured-schema request embedding the trimmed response to the last
\* analysis request; the next is the three-field summary request embedding
\* the idea and not the refined one; what is written to
\* aider_auto_prompt.json is the parsed response to that request; and the
\* confirmation prompt is reached with exactly these calls made.
C21_SynthesisCalls ==
    [][ /\ (collabCalls' # collabCalls /\ collabCalls < RefineIterations + 2)
           => /\ collabCalls' = collabCalls + 1
              /\ high_level_idea # <<>> /\ high_level_idea # NoLine
              /\ collabCalls = 0
                 => lastCall'.kind = "analyze" /\ lastCall'.embeds = high_level_idea
              /\ collabCalls \in 1 .. (RefineIterations - 1)
                 => /\ lastCall.kind = "analyze" /\ lastCall'.kind = "analyze"
                    /\ lastCall'.embeds = Strip(lastCall.response)
              /\ collabCalls = RefineIterations
                 => /\ lastCall.kind = "analyze" /\ lastCall'.kind = "schema"
                    /\ lastCall'.embeds = Strip(lastCall.response)
              /\ collabCalls = RefineIterations + 1
                 => /\ lastCall.kind = "schema" /\ lastCall'.kind = "summary"
                    /\ lastCall'.embeds = high_level_idea
                    /\ lastCall'.embeds # lastCall.embeds
                    /\ artifact'.written
                       => artifact'.data = lastCall'.response[1]
        /\ (artifact'.written /\ ~artifact.written) => lastCall'.kind = "summary"
        /\ (pc' = "confirm" /\ pc # "confirm")
           => collabCalls' = RefineIterations + 2 /\ artifact'.written
        /\ confirm' # confirm => collabCalls = RefineIterations + 2
      ]_vars

\* C21 witness: the confirmation prompt reached after a last analysis response
\* with surrounding whitespace, the summary request made with the idea
C21_Witness ==
    /\ pc = "confirm" /\ collabCalls = RefineIterations + 2
    /\ lastCall.kind = "summary" /\ lastCall.embeds = <<"a">>
    /\ current_prompt = <<"3">> /\ artifact = [written |-> TRUE, data |-> "{hml}"]

\* C22: whenever the health check of an execute_code call has run, the process
\* that call launched was no longer alive when _check_program_startup
\* returned: it had exited, had been killed at the timeout, or had never
\* been launched.
C22_HealthAfterProcessGone ==
    (config.program_type = "long_running" /\ lastExec.health # "-")
    => /\ ~StartupLeavesAlive(lastExec.launch, lastExec.wait)
       /\ lastExec.launch = "raise" \/ lastExec.wait \in {"exited", "timeout"}

\* the iterations range(max_iterations) allows
IterationBudget == IF config.max_iterations > 0 THEN config.max_iterations ELSE 0

\* C23: every run whose blocking calls all return reaches its end, and its
\* collaborator calls are bounded: RefineIterations + 2 at most outside the
\* loop and the review, one generate and one evaluate request per iteration
\* for at most max_iterations iterations, and one review request at most.
C23_TerminatesBounded ==
    /\ <>(pc = "done")
    /\ [](/\ genCount <= IterationBudget /\ evalCount <= IterationBudget
          /\ genCount <= i + 1 /\ evalCount = i
          /\ reviewCalls <= 1
          /\ collabCalls - genCount - evalCount - reviewCalls <= RefineIterations + 2
          /\ collabCalls <= RefineIterations + 2 + 2 * IterationBudget + 1)

\* C23 witness: a finished run that made every call the bound allows
C23_Witness ==
    /\ pc = "done" /\ config.max_iterations = MaxIter
    /\ collabCalls = RefineIterations + 2 + 2 * MaxIter + 1

\* C24: in every window of RATE_LIMIT_PERIOD ticks the body of
\* get_wiki_article starts RATE_LIMIT_CALLS times at most.
C24_RateBounded ==
    \A t \in 0 .. MaxTime :
      Cardinality({ k \in DOMAIN starts :
                      starts[k] >= t /\ starts[k] < t + RATE_LIMIT_PERIOD })
        <= RATE_LIMIT_CALLS

====
